---- MODULE Spec2Model ----
(***************************************************************************)
(* A model of src/parse/lexer.rs: the raw argument sequence with its       *)
(* cursors (RawArgs, ArgCursor), the classification of one argument        *)
(* (ParsedArg) and the decomposition of a short-flag cluster (ShortFlags). *)
(*                                                                         *)
(* An OsStr / RawOsStr is the sequence of its bytes (0..255); a &str is    *)
(* the sequence of its UTF-8 bytes.  Option<T> is <<>> (None) or <<x>>     *)
(* (Some(x)).  The model is of a 64-bit target: usize and u64 have the     *)
(* same width.                                                             *)
(***************************************************************************)
EXTENDS Integers, Sequences, FiniteSets, TLC

VARIABLES
  items,    \* RawArgs.items: the sequence of raw arguments
  cursor,   \* ArgCursor.cursor of every cursor handed out
  status,   \* "ok", or "panicked" once an operation of RawArgs has panicked
  last,     \* the last call on RawArgs: operation, cursor, argument, result, state before it
  run,      \* history: the results of the consecutive next/next_os calls on one cursor
            \* since it was created ("fresh") or since it was inserted at ("insert")
  rawArg,   \* the raw argument a ParsedArg was made of
  sf,       \* what to_short returned for it: None, or Some(the ShortFlags as it is now)
  slast,    \* the last call on the ShortFlags: operation, argument, result
  yielded,  \* history: the results of the next calls on the ShortFlags, in order
  pure,     \* history: only next and is_empty have been called on the ShortFlags
  query     \* the last query on the ParsedArg of rawArg: operation and result

argsVars == <<items, cursor, status, last, run>>

shortVars == <<rawArg, sf, slast, yielded, pure, query>>

vars == <<items, cursor, status, last, run, rawArg, sf, slast, yielded, pure, query>>

-----------------------------------------------------------------------------
(* Bounds *)

\* the longest sequence of raw arguments
MaxItems == 3

\* the most items one insert call passes
MaxIns == 2

\* the longest raw argument that is classified and decomposed, in bytes
MaxArgLen == 4

\* next/next_os are not called beyond this index (the real index stops at usize::MAX)
MaxCursor == MaxItems + 2

\* i64::MAX, scaled down so that seek offsets can be enumerated; every index of the
\* model stays below it, as every real index stays below 2^63 - 1
I64Max == MaxCursor + 2

I64Min == -I64Max - 1

U64Max == 2 * I64Max + 1

-----------------------------------------------------------------------------
(* Integers of fixed width *)

Min(a, b) == IF a < b THEN a ELSE b

Max(a, b) == IF a > b THEN a ELSE b

\* i64::saturating_add
SaturatingAddI64(a, b) ==
  IF a + b > I64Max THEN I64Max ELSE IF a + b < I64Min THEN I64Min ELSE a + b

\* `x as i64` of a usize / u64
AsI64(x) == IF x > I64Max THEN x - (U64Max + 1) ELSE x

\* `x as u64` of an i64
AsU64(x) == IF x < 0 THEN x + (U64Max + 1) ELSE x

\* `x as usize` of a u64 (same width)
AsUsize(x) == x % (U64Max + 1)

-----------------------------------------------------------------------------
(* Bytes and UTF-8 *)

Dash == 45

Equals == 61

None == <<>>

Some(x) == <<x>>

IsCont(x) == x >= 128 /\ x <= 191

\* The width of the UTF-8 sequence that starts at b[i], or 0 when none does
\* (std::str::from_utf8's validation of one scalar value).
CharWidth(b, i) ==
  LET n == Len(b)
      x == b[i]
      y == IF i + 1 <= n THEN b[i + 1] ELSE 0
      z == IF i + 2 <= n THEN b[i + 2] ELSE 0
      w == IF i + 3 <= n THEN b[i + 3] ELSE 0
  IN  IF x < 128 THEN 1
      ELSE IF x >= 194 /\ x <= 223 THEN (IF IsCont(y) THEN 2 ELSE 0)
      ELSE IF x = 224 THEN (IF y >= 160 /\ y <= 191 /\ IsCont(z) THEN 3 ELSE 0)
      ELSE IF (x >= 225 /\ x <= 236) \/ x = 238 \/ x = 239
           THEN (IF IsCont(y) /\ IsCont(z) THEN 3 ELSE 0)
      ELSE IF x = 237 THEN (IF y >= 128 /\ y <= 159 /\ IsCont(z) THEN 3 ELSE 0)
      ELSE IF x = 240 THEN (IF y >= 144 /\ y <= 191 /\ IsCont(z) /\ IsCont(w) THEN 4 ELSE 0)
      ELSE IF x >= 241 /\ x <= 243 THEN (IF IsCont(y) /\ IsCont(z) /\ IsCont(w) THEN 4 ELSE 0)
      ELSE IF x = 244 THEN (IF y >= 128 /\ y <= 143 /\ IsCont(z) /\ IsCont(w) THEN 4 ELSE 0)
      ELSE 0

RECURSIVE ValidFrom(_, _)
\* The number of leading bytes of b that are valid UTF-8, scanning from offset i
\* (0-based): Utf8Error::valid_up_to, or Len(b) when all of b is valid.
ValidFrom(b, i) ==
  IF i >= Len(b) THEN Len(b)
  ELSE IF CharWidth(b, i + 1) = 0 THEN i
  ELSE ValidFrom(b, i + CharWidth(b, i + 1))

ValidUpTo(b) == ValidFrom(b, 0)

IsUtf8(b) == ValidUpTo(b) = Len(b)

\* The scalar value of the UTF-8 sequence of width w that starts at b[i]
DecodeChar(b, i, w) ==
  IF w = 1 THEN b[i]
  ELSE IF w = 2 THEN (b[i] % 32) * 64 + (b[i + 1] % 64)
  ELSE IF w = 3 THEN (b[i] % 16) * 4096 + (b[i + 1] % 64) * 64 + (b[i + 2] % 64)
  ELSE (b[i] % 8) * 262144 + (b[i + 1] % 64) * 4096 + (b[i + 2] % 64) * 64 + (b[i + 3] % 64)

\* OsStr::to_str
ToStr(b) == IF IsUtf8(b) THEN Some(b) ELSE None

\* b[from..] with a 0-based byte offset
SliceFrom(b, from) == SubSeq(b, from + 1, Len(b))

StartsWith(b, p) == Len(b) >= Len(p) /\ SubSeq(b, 1, Len(p)) = p

\* RawOsStr::strip_prefix
StripPrefix(b, p) == IF StartsWith(b, p) THEN Some(SliceFrom(b, Len(p))) ELSE None

-----------------------------------------------------------------------------
(* ParsedArg *)

ParsedArgNew(inner) == [inner |-> inner, utf8 |-> ToStr(inner)]

-----------------------------------------------------------------------------
(* RawArgs and ArgCursor: the pure parts of the operations *)

\* the raw arguments a sequence is built from (RawArgs::from): "--x", "-a"
Pool == { <<45, 45, 120>>, <<45, 97>> }

\* the strings insert is called with: "v", "--e"
InsPool == { <<118>>, <<45, 45, 101>> }

SeqsUpTo(S, n) == UNION { [1..k -> S] : k \in 0..n }

\* the SeekFrom values seek is called with: in range, just out of range, out of
\* every range, and at the ends of the integer types
SeekArgs ==
  [whence : {"Start"}, off : {0, 1, 2, MaxItems + 1, U64Max}]
    \cup [whence : {"End", "Current"},
          off : {I64Min, -(MaxItems + 1), -1, 0, 1, MaxItems + 1, I64Max}]

\* Vec::get with a 0-based index
Get(its, i) == IF i < Len(its) THEN Some(its[i + 1]) ELSE None

\* Option::map(ParsedArg::new)
MapParsedArg(opt) == IF opt = None THEN None ELSE Some(ParsedArgNew(opt[1]))

\* next_os: the element returned
NextOsRet(its, cur) == Get(its, cur)

\* a next_os that steps over an element
NextOsCursorSkips(cur) == Min(cur + 2, U64Max)

\* next_os: cursor.cursor.saturating_add(1)
NextOsCursor(cur) == Min(cur + 1, U64Max)

\* a peek_os that looks one element too far
PeekOsRetAhead(its, cur) == Get(its, cur + 1)

\* peek_os
PeekOsRet(its, cur) == Get(its, cur)

\* remaining: self.items[cursor.cursor..] panics when the start is beyond the length
RemainingPanics(its, cur) == cur > Len(its)

\* remaining: the elements the iterator yields
RemainingRet(its, cur) == SliceFrom(its, cur)

\* remaining: the cursor afterwards
RemainingCursor(its) == Len(its)

\* a seek without the .max(0) before the cast to u64
SeekTargetNoFloor(its, cur, pos) ==
  CASE pos.whence = "Start" -> pos.off
    [] pos.whence = "End" -> AsU64(SaturatingAddI64(AsI64(Len(its)), pos.off))
    [] pos.whence = "Current" -> AsU64(SaturatingAddI64(AsI64(cur), pos.off))

\* seek: the position the match computes, as a u64
SeekTarget(its, cur, pos) ==
  CASE pos.whence = "Start" -> pos.off
    [] pos.whence = "End" ->
         AsU64(Max(SaturatingAddI64(AsI64(Len(its)), pos.off), 0))
    [] pos.whence = "Current" ->
         AsU64(Max(SaturatingAddI64(AsI64(cur), pos.off), 0))

\* seek: the cursor afterwards
SeekCursor(its, cur, pos) == Min(AsUsize(SeekTarget(its, cur, pos)), Len(its))

\* OsString::from(&str): the bytes of the string
OsStringFrom(s) == s

\* insert: Vec::splice panics when the range lies beyond the length
InsertPanics(its, cur) == cur > Len(its)

\* an insert that puts the items in back to front
SpliceReversed(its, cur, ins) ==
  SubSeq(its, 1, cur) \o [k \in 1..Len(ins) |-> ins[Len(ins) + 1 - k]]
    \o SubSeq(its, cur + 1, Len(its))

\* an insert that extends the sequence at its end
SpliceAtEnd(its, cur, ins) == its \o ins

\* insert: self.items.splice(cursor..cursor, insert_items.iter().map(OsString::from))
Splice(its, cur, ins) ==
  SubSeq(its, 1, cur) \o [k \in 1..Len(ins) |-> OsStringFrom(ins[k])]
    \o SubSeq(its, cur + 1, Len(its))

-----------------------------------------------------------------------------
(* RawArgs and ArgCursor: the state machine *)

Call(op, c, arg, ret) ==
  [op |-> op, c |-> c, arg |-> arg, ret |-> ret, items0 |-> items, cur0 |-> cursor[c]]

NoRun == [kind |-> "none", c |-> "", ins |-> <<>>, prev |-> None, yields |-> <<>>]

FreshRun(c) == [kind |-> "fresh", c |-> c, ins |-> <<>>, prev |-> None, yields |-> <<>>]

\* the history after a next/next_os call on c returned ret
RunYield(op, c, ret) ==
  IF run.kind # "none" /\ run.c = c
  THEN [run EXCEPT !.yields = Append(@, [op |-> op, ret |-> ret])]
  ELSE run

\* the history after another call on c that leaves the sequence alone
RunOther(c) == IF run.c = c THEN NoRun ELSE run

\* RawArgs::from followed by RawArgs::cursor
InitArgs ==
  /\ items \in SeqsUpTo(Pool, MaxItems)
  /\ cursor = [c \in {"c1"} |-> 0]
  /\ status = "ok"
  /\ last = [op |-> "from", c |-> "c1", arg |-> <<>>, ret |-> None,
             items0 |-> <<>>, cur0 |-> 0]
  /\ run = FreshRun("c1")
  /\ rawArg = <<>>
  /\ sf = None
  /\ slast = [op |-> "none", n |-> 0, ret |-> None]
  /\ yielded = <<>>
  /\ pure = TRUE
  /\ query = [op |-> "none", ret |-> None]

\* RawArgs::cursor: c becomes a fresh cursor
Cursor(c) ==
  /\ status = "ok"
  /\ c \in DOMAIN cursor
  /\ cursor' = [cursor EXCEPT ![c] = 0]
  /\ last' = Call("cursor", c, <<>>, None)
  /\ run' = FreshRun(c)
  /\ UNCHANGED <<items, status>>
  /\ UNCHANGED shortVars

NextOs(c) ==
  /\ status = "ok"
  /\ c \in DOMAIN cursor
  /\ cursor[c] < MaxCursor
  /\ LET ret == NextOsRet(items, cursor[c])
     IN  /\ cursor' = [cursor EXCEPT ![c] = NextOsCursor(cursor[c])]
         /\ last' = Call("next_os", c, <<>>, ret)
         /\ run' = RunYield("next_os", c, ret)
  /\ UNCHANGED <<items, status>>
  /\ UNCHANGED shortVars

Next(c) ==
  /\ status = "ok"
  /\ c \in DOMAIN cursor
  /\ cursor[c] < MaxCursor
  /\ LET ret == MapParsedArg(NextOsRet(items, cursor[c]))
     IN  /\ cursor' = [cursor EXCEPT ![c] = NextOsCursor(cursor[c])]
         /\ last' = Call("next", c, <<>>, ret)
         /\ run' = RunYield("next", c, ret)
  /\ UNCHANGED <<items, status>>
  /\ UNCHANGED shortVars

PeekOs(c) ==
  /\ status = "ok"
  /\ c \in DOMAIN cursor
  /\ last' = Call("peek_os", c, <<>>, PeekOsRet(items, cursor[c]))
  /\ run' = RunOther(c)
  /\ UNCHANGED <<items, cursor, status>>
  /\ UNCHANGED shortVars

Peek(c) ==
  /\ status = "ok"
  /\ c \in DOMAIN cursor
  /\ last' = Call("peek", c, <<>>, MapParsedArg(PeekOsRet(items, cursor[c])))
  /\ run' = RunOther(c)
  /\ UNCHANGED <<items, cursor, status>>
  /\ UNCHANGED shortVars

Remaining(c) ==
  /\ status = "ok"
  /\ c \in DOMAIN cursor
  /\ IF RemainingPanics(items, cursor[c])
     THEN /\ status' = "panicked"
          /\ last' = Call("remaining", c, <<>>, None)
          /\ UNCHANGED cursor
     ELSE /\ cursor' = [cursor EXCEPT ![c] = RemainingCursor(items)]
          /\ last' = Call("remaining", c, <<>>, RemainingRet(items, cursor[c]))
          /\ UNCHANGED status
  /\ run' = RunOther(c)
  /\ UNCHANGED items
  /\ UNCHANGED shortVars

Seek(c, pos) ==
  /\ status = "ok"
  /\ c \in DOMAIN cursor
  /\ cursor' = [cursor EXCEPT ![c] = SeekCursor(items, cursor[c], pos)]
  /\ last' = Call("seek", c, pos, None)
  /\ run' = RunOther(c)
  /\ UNCHANGED <<items, status>>
  /\ UNCHANGED shortVars

\* an insert that keeps the other cursors on their elements: every other cursor at
\* or after the insertion point moves along with the inserted items
InsertShiftsCursors(c, ins) ==
  /\ status = "ok"
  /\ c \in DOMAIN cursor
  /\ Len(items) + Len(ins) <= MaxItems
  /\ last' = Call("insert", c, ins, None)
  /\ IF InsertPanics(items, cursor[c])
     THEN /\ status' = "panicked"
          /\ run' = NoRun
          /\ UNCHANGED <<items, cursor>>
     ELSE /\ items' = Splice(items, cursor[c], ins)
          /\ cursor' = [d \in DOMAIN cursor |->
                          IF d # c /\ cursor[d] >= cursor[c]
                          THEN cursor[d] + Len(ins) ELSE cursor[d]]
          /\ run' = [kind |-> "insert", c |-> c, ins |-> ins,
                     prev |-> NextOsRet(items, cursor[c]), yields |-> <<>>]
          /\ UNCHANGED status
  /\ UNCHANGED shortVars

Insert(c, ins) ==
  /\ status = "ok"
  /\ c \in DOMAIN cursor
  /\ Len(items) + Len(ins) <= MaxItems
  /\ last' = Call("insert", c, ins, None)
  /\ IF InsertPanics(items, cursor[c])
     THEN /\ status' = "panicked"
          /\ run' = NoRun
          /\ UNCHANGED items
     ELSE /\ items' = Splice(items, cursor[c], ins)
          /\ run' = [kind |-> "insert", c |-> c, ins |-> ins,
                     prev |-> NextOsRet(items, cursor[c]), yields |-> <<>>]
          /\ UNCHANGED status
  /\ UNCHANGED cursor
  /\ UNCHANGED shortVars

\* the cursors a specification may hand out
Cursors == {"c1", "c2"}

NextArgs ==
  \/ \E c \in Cursors : Cursor(c)
  \/ \E c \in Cursors : NextOs(c)
  \/ \E c \in Cursors : Next(c)
  \/ \E c \in Cursors : PeekOs(c)
  \/ \E c \in Cursors : Peek(c)
  \/ \E c \in Cursors : Remaining(c)
  \/ \E c \in Cursors, pos \in SeekArgs : Seek(c, pos)
  \/ \E c \in Cursors, ins \in SeqsUpTo(InsPool, MaxIns) : Insert(c, ins)

Init == InitArgs

Spec == Init /\ [][NextArgs]_vars

-----------------------------------------------------------------------------
(* Claims about RawArgs and ArgCursor *)

\* the raw element a call returned: the argument itself, or the one a ParsedArg views
Raw(op, ret) ==
  IF ret = None THEN None
  ELSE IF op \in {"next", "peek"} THEN Some(ret[1].inner) ELSE ret

Clamp(t, lo, hi) == IF t < lo THEN lo ELSE IF t > hi THEN hi ELSE t

\* C1: in every reachable state every cursor's index is at most the length of the
\* sequence (next/next_os at the end leave the index at the length).
C1_CursorWithinLength == \A c \in DOMAIN cursor : cursor[c] <= Len(items)

\* C2: no operation reaches a panic: after any sequence of calls, a following
\* remaining or insert call completes normally.
C2_NoPanic == status # "panicked"

\* C3: on a fresh cursor over a sequence that is not modified, the k-th next/next_os
\* call returns the element at position k-1, for k up to the length L, and every later
\* call returns no element.
C3_NextVisitsInOrder ==
  run.kind = "fresh" =>
    \A k \in 1..Len(run.yields) :
      Raw(run.yields[k].op, run.yields[k].ret)
        = IF k <= Len(items) THEN Some(items[k]) ELSE None

\* C3 witness: a fresh cursor has been read to the end of a sequence of two or more
\* elements and at least once beyond it.
C3_Witness ==
  /\ run.kind = "fresh"
  /\ Len(items) >= 2
  /\ Len(run.yields) > Len(items)

\* the position a seek asks for, as an integer
SeekAsked(pos, cur0, len) ==
  CASE pos.whence = "Start" -> pos.off
    [] pos.whence = "End" -> len + pos.off
    [] pos.whence = "Current" -> cur0 + pos.off

\* C4: seek never fails and leaves the cursor at clamp(t, 0, L), t being pos for
\* Start(pos), L + pos for End(pos) and index + pos for Current(pos), whatever the
\* index was before; seek(End(0)) leaves it at L.
C4_SeekClamps ==
  last.op = "seek" =>
    /\ status = "ok"
    /\ cursor[last.c] = Clamp(SeekAsked(last.arg, last.cur0, Len(items)), 0, Len(items))
    /\ (last.arg.whence = "End" /\ last.arg.off = 0 => cursor[last.c] = Len(items))

\* C4 witness: a seek relative to an index that was beyond the length, to a target
\* before 0, on a sequence of two or more elements.
C4_Witness ==
  /\ last.op = "seek"
  /\ Len(items) >= 2
  /\ last.cur0 > Len(items)
  /\ last.arg.whence = "Current"
  /\ last.cur0 + last.arg.off < 0
  /\ cursor[last.c] = 0

\* C5: insert of n items at index p, 0 <= p <= L, gives a sequence of length L + n
\* whose positions 0..p-1 are unchanged, whose positions p..p+n-1 hold the items in
\* the order given, and in which every element that was at i >= p is at i + n; with
\* n = 0 the sequence is unchanged.
C5_InsertShifts ==
  (last.op = "insert" /\ last.cur0 <= Len(last.items0)) =>
    LET old == last.items0
        p == last.cur0
        n == Len(last.arg)
    IN  /\ status = "ok"
        /\ Len(items) = Len(old) + n
        /\ \A i \in 1..p : items[i] = old[i]
        /\ \A j \in 1..n : items[p + j] = last.arg[j]
        /\ \A i \in (p + 1)..Len(old) : items[i + n] = old[i]
        /\ (n = 0 => items = old)

\* C5 witness: an item was inserted strictly inside a sequence.
C5_Witness ==
  /\ last.op = "insert"
  /\ status = "ok"
  /\ Len(last.arg) >= 1
  /\ last.cur0 >= 1
  /\ last.cur0 < Len(last.items0)

\* C6: after insert of a non-empty list at a cursor, the next/next_os calls on that
\* cursor return the inserted items in order (with their text view present) and then
\* the element the cursor would have returned before the insertion.
C6_InsertedComeNext ==
  (run.kind = "insert" /\ Len(run.ins) >= 1) =>
    \A k \in 1..Len(run.yields) :
      LET y == run.yields[k]
      IN  /\ k <= Len(run.ins) =>
               /\ Raw(y.op, y.ret) = Some(run.ins[k])
               /\ y.op = "next" => y.ret[1].utf8 = Some(run.ins[k])
          /\ k = Len(run.ins) + 1 => Raw(y.op, y.ret) = run.prev

\* C6 witness: two items were inserted in front of an element, and the cursor has
\* since returned the two and that element.
C6_Witness ==
  /\ run.kind = "insert"
  /\ Len(run.ins) = 2
  /\ run.ins[1] # run.ins[2]
  /\ run.prev # None
  /\ Len(run.yields) >= 3

\* C7: remaining with the cursor at index p returns the raw elements at p..L-1 in
\* order, leaves the sequence unchanged and sets the cursor to L, so that the cursor
\* then has no element to return.
C7_RemainingToEnd ==
  last.op = "remaining" =>
    /\ status = "ok"
    /\ last.ret = [k \in 1..(Len(last.items0) - last.cur0) |-> last.items0[last.cur0 + k]]
    /\ items = last.items0
    /\ cursor[last.c] = Len(items)
    /\ Get(items, cursor[last.c]) = None

\* C8: peek and peek_os change neither the cursor nor the sequence, and the call that
\* follows on the same cursor, be it next, next_os, peek or peek_os, returns the very
\* element (or absence) the peek returned.
C8_PeekShowsNext ==
  [][ /\ last'.op \in {"peek", "peek_os"} => (cursor' = cursor /\ items' = items)
      /\ ( /\ last.op \in {"peek", "peek_os"}
           /\ last'.op \in {"next", "next_os", "peek", "peek_os"}
           /\ last'.c = last.c )
         => /\ Raw(last'.op, last'.ret) = Raw(last.op, last.ret)
            /\ ( \/ (last.op = "peek" /\ last'.op = "next")
                 \/ (last.op = "peek_os" /\ last'.op = "next_os")
                 \/ last'.op = last.op ) => last'.ret = last.ret
    ]_vars

\* C8 witness: a peek returned an element that is not the first of the sequence.
C8_Witness ==
  /\ last.op = "peek"
  /\ last.ret # None
  /\ last.cur0 >= 1
  /\ cursor[last.c] = last.cur0

-----------------------------------------------------------------------------
(* ParsedArg::to_short and ShortFlags: the pure parts *)

\* the bytes raw arguments are made of: '-', '1', 'a', 0xC3 0xA9 (the two bytes of
\* U+00E9), and 0xFF, which no UTF-8 sequence holds
ByteAlphabet == {45, 49, 97, 195, 169, 255}

\* the raw arguments that are classified and decomposed
ArgInputs == SeqsUpTo(ByteAlphabet, MaxArgLen)

Ok(x) == [ok |-> TRUE, val |-> x]

Err(x) == [ok |-> FALSE, val |-> x]

\* str::char_indices
CharIndices(str) == [str |-> str, front_offset |-> 0]

\* a CharIndices::next that takes every byte for a character
CharIndicesNextBytewise(ci) ==
  IF ci.str = <<>> THEN [ret |-> None, ci |-> ci]
  ELSE [ret |-> Some(<<ci.front_offset, ci.str[1]>>),
        ci |-> [str |-> SliceFrom(ci.str, 1), front_offset |-> ci.front_offset + 1]]

\* CharIndices::next: the offset and the value of the next character, and the
\* iterator after it
CharIndicesNext(ci) ==
  IF ci.str = <<>> THEN [ret |-> None, ci |-> ci]
  ELSE LET w == CharWidth(ci.str, 1)
       IN  [ret |-> Some(<<ci.front_offset, DecodeChar(ci.str, 1, w)>>),
            ci |-> [str |-> SliceFrom(ci.str, w), front_offset |-> ci.front_offset + w]]

\* a split_nonutf8_once whose rest begins one byte after the valid prefix
SplitNonUtf8OnceSkipsByte(b) ==
  IF IsUtf8(b) THEN <<b, None>>
  ELSE <<SubSeq(b, 1, ValidUpTo(b)), Some(SliceFrom(b, ValidUpTo(b) + 1))>>

\* split_nonutf8_once: <<valid prefix, Option<the rest>>>
SplitNonUtf8Once(b) ==
  IF IsUtf8(b) THEN <<b, None>>
  ELSE <<SubSeq(b, 1, ValidUpTo(b)), Some(SliceFrom(b, ValidUpTo(b)))>>

\* ShortFlags::new
ShortFlagsNew(inner, utf8) ==
  LET split == IF utf8 # None THEN <<utf8[1], None>> ELSE SplitNonUtf8Once(inner)
  IN  [inner |-> inner,
       utf8_prefix |-> CharIndices(split[1]),
       invalid_suffix |-> split[2]]

\* a to_short that hands the text view over with its leading dash
ToShortKeepsDash(parsed) ==
  LET remainder_os == StripPrefix(parsed.inner, <<Dash>>)
  IN  IF remainder_os = None THEN None
      ELSE IF StartsWith(remainder_os[1], <<Dash>>) THEN None
      ELSE Some(ShortFlagsNew(remainder_os[1], parsed.utf8))

\* ParsedArg::to_short
ToShort(parsed) ==
  LET remainder_os == StripPrefix(parsed.inner, <<Dash>>)
  IN  IF remainder_os = None THEN None
      ELSE IF StartsWith(remainder_os[1], <<Dash>>) THEN None
      ELSE Some(ShortFlagsNew(
                  remainder_os[1],
                  IF parsed.utf8 = None THEN None ELSE Some(SliceFrom(parsed.utf8[1], 1))))

IsDigit(x) == x >= 48 /\ x <= 57

RECURSIVE SkipDigits(_, _)
\* the position after the decimal digits that start at s[i]
SkipDigits(s, i) == IF i <= Len(s) /\ IsDigit(s[i]) THEN SkipDigits(s, i + 1) ELSE i

AsciiLower(x) == IF x >= 65 /\ x <= 90 THEN x + 32 ELSE x

\* str::parse::<f64>().is_ok(): an optional sign, then inf, infinity or nan in any
\* case, or digits with an optional '.' and at least one digit, and an optional
\* exponent of 'e' or 'E', an optional sign and at least one digit
ParseF64Ok(s) ==
  LET n == Len(s)
      i0 == IF n >= 1 /\ s[1] \in {43, 45} THEN 2 ELSE 1
      word == [k \in 1..(n + 1 - i0) |-> AsciiLower(s[i0 + k - 1])]
      i1 == SkipDigits(s, i0)
      dot == i1 <= n /\ s[i1] = 46
      i2 == IF dot THEN SkipDigits(s, i1 + 1) ELSE i1
      digits == (i1 - i0) + (IF dot THEN i2 - i1 - 1 ELSE 0)
      e0 == IF i2 + 1 <= n /\ s[i2 + 1] \in {43, 45} THEN i2 + 2 ELSE i2 + 1
      i3 == IF i2 <= n /\ s[i2] \in {69, 101}
            THEN (IF SkipDigits(s, e0) > e0 THEN SkipDigits(s, e0) ELSE 0)
            ELSE i2
  IN  \/ word \in { <<105, 110, 102>>, <<110, 97, 110>>,
                    <<105, 110, 102, 105, 110, 105, 116, 121>> }
      \/ (digits >= 1 /\ i3 = n + 1)

\* ShortFlags::is_number
FlagsIsNumber(f) == f.invalid_suffix = None /\ ParseF64Ok(f.utf8_prefix.str)

\* a ShortFlags::is_empty that looks at the valid prefix only
FlagsIsEmptyOfPrefix(f) == f.utf8_prefix.str = <<>>

\* ShortFlags::is_empty
FlagsIsEmpty(f) == f.invalid_suffix = None /\ f.utf8_prefix.str = <<>>

\* a ShortFlags::next that leaves the invalid suffix in place
FlagsNextKeepsSuffix(f) ==
  LET n == CharIndicesNext(f.utf8_prefix)
  IN  IF n.ret # None
      THEN [ret |-> Some(Ok(n.ret[1][2])), f |-> [f EXCEPT !.utf8_prefix = n.ci]]
      ELSE IF f.invalid_suffix # None
      THEN [ret |-> Some(Err(f.invalid_suffix[1])), f |-> f]
      ELSE [ret |-> None, f |-> f]

\* ShortFlags::next: the result and the ShortFlags after the call
FlagsNext(f) ==
  LET n == CharIndicesNext(f.utf8_prefix)
  IN  IF n.ret # None
      THEN [ret |-> Some(Ok(n.ret[1][2])), f |-> [f EXCEPT !.utf8_prefix = n.ci]]
      ELSE IF f.invalid_suffix # None
      THEN [ret |-> Some(Err(f.invalid_suffix[1])),
            f |-> [f EXCEPT !.invalid_suffix = None]]
      ELSE [ret |-> None, f |-> [f EXCEPT !.utf8_prefix = n.ci]]

\* a ShortFlags::value_os that leaves the invalid suffix in place when it returns
\* the rest of the valid prefix
FlagsValueOsKeepsSuffix(f) ==
  LET n == CharIndicesNext(f.utf8_prefix)
  IN  IF n.ret # None
      THEN [ret |-> Some(SliceFrom(f.inner, n.ret[1][1])),
            f |-> [f EXCEPT !.utf8_prefix = CharIndices(<<>>)]]
      ELSE IF f.invalid_suffix # None
      THEN [ret |-> Some(f.invalid_suffix[1]),
            f |-> [f EXCEPT !.utf8_prefix = n.ci, !.invalid_suffix = None]]
      ELSE [ret |-> None, f |-> [f EXCEPT !.utf8_prefix = n.ci]]

\* ShortFlags::value_os: the result and the ShortFlags after the call
FlagsValueOs(f) ==
  LET n == CharIndicesNext(f.utf8_prefix)
  IN  IF n.ret # None
      THEN [ret |-> Some(SliceFrom(f.inner, n.ret[1][1])),
            f |-> [f EXCEPT !.utf8_prefix = CharIndices(<<>>), !.invalid_suffix = None]]
      ELSE IF f.invalid_suffix # None
      THEN [ret |-> Some(f.invalid_suffix[1]),
            f |-> [f EXCEPT !.utf8_prefix = n.ci, !.invalid_suffix = None]]
      ELSE [ret |-> None, f |-> [f EXCEPT !.utf8_prefix = n.ci]]

RECURSIVE AdvanceLoopLeavesSuffix(_, _, _)
\* an advance_by that looks at the next unit and leaves an invalid suffix unconsumed
AdvanceLoopLeavesSuffix(f, i, n) ==
  IF i >= n THEN [ret |-> Ok(<<>>), f |-> f]
  ELSE LET r == FlagsNext(f)
       IN  IF r.ret = None THEN [ret |-> Err(i), f |-> r.f]
           ELSE IF ~r.ret[1].ok THEN [ret |-> Err(i), f |-> f]
           ELSE AdvanceLoopLeavesSuffix(r.f, i + 1, n)

RECURSIVE AdvanceLoop(_, _, _)
\* ShortFlags::advance_by: the loop from iteration i on; `?` returns Err(i) when next
\* returns None or an invalid suffix
AdvanceLoop(f, i, n) ==
  IF i >= n THEN [ret |-> Ok(<<>>), f |-> f]
  ELSE LET r == FlagsNext(f)
       IN  IF r.ret = None THEN [ret |-> Err(i), f |-> r.f]
           ELSE IF ~r.ret[1].ok THEN [ret |-> Err(i), f |-> r.f]
           ELSE AdvanceLoop(r.f, i + 1, n)

\* a ShortFlags::advance_by whose loop counts from 1
FlagsAdvanceByFromOne(f, n) == AdvanceLoop(f, 1, n)

\* ShortFlags::advance_by
FlagsAdvanceBy(f, n) == AdvanceLoop(f, 0, n)

-----------------------------------------------------------------------------
(* ShortFlags: the state machine *)

\* ParsedArg::new on a raw argument, then to_short
InitShort ==
  /\ rawArg \in ArgInputs
  /\ sf = ToShort(ParsedArgNew(rawArg))
  /\ slast = [op |-> "to_short", n |-> 0, ret |-> None]
  /\ yielded = <<>>
  /\ pure = TRUE
  /\ query = [op |-> "none", ret |-> None]
  /\ items = <<>>
  /\ cursor = [c \in {"c1"} |-> 0]
  /\ status = "ok"
  /\ last = [op |-> "from", c |-> "c1", arg |-> <<>>, ret |-> None,
             items0 |-> <<>>, cur0 |-> 0]
  /\ run = NoRun

\* next; the history keeps at most one result more than the argument has bytes
ShortNext ==
  /\ sf # None
  /\ Len(yielded) <= Len(rawArg)
  /\ LET r == FlagsNext(sf[1])
     IN  /\ sf' = Some(r.f)
         /\ slast' = [op |-> "next", n |-> 0, ret |-> r.ret]
         /\ yielded' = Append(yielded, r.ret)
  /\ UNCHANGED <<rawArg, pure, query>>
  /\ UNCHANGED argsVars

ShortValueOs ==
  /\ sf # None
  /\ LET r == FlagsValueOs(sf[1])
     IN  /\ sf' = Some(r.f)
         /\ slast' = [op |-> "value_os", n |-> 0, ret |-> r.ret]
  /\ pure' = FALSE
  /\ UNCHANGED <<rawArg, yielded, query>>
  /\ UNCHANGED argsVars

ShortAdvanceBy(n) ==
  /\ sf # None
  /\ LET r == FlagsAdvanceBy(sf[1], n)
     IN  /\ sf' = Some(r.f)
         /\ slast' = [op |-> "advance_by", n |-> n, ret |-> r.ret]
  /\ pure' = FALSE
  /\ UNCHANGED <<rawArg, yielded, query>>
  /\ UNCHANGED argsVars

ShortIsEmpty ==
  /\ sf # None
  /\ slast' = [op |-> "is_empty", n |-> 0, ret |-> FlagsIsEmpty(sf[1])]
  /\ UNCHANGED <<rawArg, sf, yielded, pure, query>>
  /\ UNCHANGED argsVars

ShortIsNumber ==
  /\ sf # None
  /\ slast' = [op |-> "is_number", n |-> 0, ret |-> FlagsIsNumber(sf[1])]
  /\ UNCHANGED <<rawArg, sf, yielded, pure, query>>
  /\ UNCHANGED argsVars

NextShort ==
  \/ ShortNext
  \/ ShortValueOs
  \/ \E n \in 0..MaxArgLen : ShortAdvanceBy(n)
  \/ ShortIsEmpty
  \/ ShortIsNumber

SpecShort == InitShort /\ [][NextShort]_vars

-----------------------------------------------------------------------------
(* Claims about ShortFlags *)

\* every character the bytes of the raw arguments can spell: '-', '1', '=', 'a',
\* U+00E9
Chars == {45, 49, 61, 97, 233}

\* the UTF-8 encoding of one character
EncodeChar(c) ==
  IF c < 128 THEN <<c>>
  ELSE IF c < 2048 THEN <<192 + (c \div 64), 128 + (c % 64)>>
  ELSE IF c < 65536
       THEN <<224 + (c \div 4096), 128 + ((c \div 64) % 64), 128 + (c % 64)>>
  ELSE <<240 + (c \div 262144), 128 + ((c \div 4096) % 64),
         128 + ((c \div 64) % 64), 128 + (c % 64)>>

RECURSIVE Encode(_)
\* the UTF-8 encoding of a string
Encode(t) == IF t = <<>> THEN <<>> ELSE EncodeChar(Head(t)) \o Encode(Tail(t))

\* r is an invalid-encoding suffix: it is not empty and no character starts it
InvalidSuffix(r) == r # <<>> /\ \A c \in Chars : ~StartsWith(r, EncodeChar(c))

\* the bytes of the argument after its leading dash
Cluster == SliceFrom(rawArg, 1)

RECURSIVE TextOf(_)
\* the longest valid text the bytes b start with, as a sequence of characters (no
\* encoding of a character starts the encoding of another, so it is unique)
TextOf(b) ==
  IF \E c \in Chars : StartsWith(b, EncodeChar(c))
  THEN LET c == CHOOSE x \in Chars : StartsWith(b, EncodeChar(x))
       IN  <<c>> \o TextOf(SliceFrom(b, Len(EncodeChar(c))))
  ELSE <<>>

\* the valid text the cluster starts with
ClusterText == TextOf(Cluster)

\* what follows it: nothing, or an invalid-encoding suffix
ClusterTail == SliceFrom(Cluster, Len(Encode(ClusterText)))

\* C9: for a short cluster whose remainder after the dash is a valid text t of k
\* characters, the next calls return the k characters of t in order and then nothing,
\* and is_empty is false until the k-th character has been returned and true after.
C9_ValidClusterInOrder ==
  (sf # None /\ pure /\ Encode(ClusterText) = Cluster) =>
    LET t == ClusterText
    IN  /\ \A i \in 1..Len(yielded) :
             yielded[i] = IF i <= Len(t) THEN Some(Ok(t[i])) ELSE None
        /\ FlagsIsEmpty(sf[1]) <=> (Len(yielded) >= Len(t))

\* C9 witness: a cluster of two or more characters, one of them of two bytes, has
\* been decomposed to its end and asked once more.
C9_Witness ==
  /\ sf # None
  /\ pure
  /\ Encode(ClusterText) = Cluster
  /\ Len(ClusterText) >= 2
  /\ \E i \in 1..Len(ClusterText) : ClusterText[i] = 233
  /\ Len(yielded) > Len(ClusterText)

\* C10: for a short cluster whose bytes after the dash are a valid text t followed by
\* a non-empty invalid-encoding suffix r, the next calls return the characters of t in
\* order, then r whole as one error unit (whatever valid bytes r holds further on),
\* then nothing.
C10_InvalidTailAtomic ==
  (sf # None /\ pure /\ InvalidSuffix(ClusterTail)) =>
    LET t == ClusterText
        r == ClusterTail
    IN  \A i \in 1..Len(yielded) :
          yielded[i] = IF i <= Len(t) THEN Some(Ok(t[i]))
                       ELSE IF i = Len(t) + 1 THEN Some(Err(r))
                       ELSE None

\* C10 witness: a character, then an invalid byte followed by a valid one; the
\* character, the suffix and one more result have been returned.
C10_Witness ==
  /\ sf # None
  /\ pure
  /\ Cluster = <<97, 255, 97>>
  /\ Len(yielded) >= 3
  /\ yielded[2] = Some(Err(<<255, 97>>))

RECURSIVE UnitsBytes(_)
\* the bytes of the units a history of next results holds: a character's encoding,
\* an invalid suffix as it is, nothing for None
UnitsBytes(ys) ==
  IF ys = <<>> THEN <<>>
  ELSE (IF Head(ys) = None THEN <<>>
        ELSE IF Head(ys)[1].ok THEN EncodeChar(Head(ys)[1].val)
        ELSE Head(ys)[1].val) \o UnitsBytes(Tail(ys))

\* the bytes of the cluster that the units of the history do not cover
RestAfterYielded == SliceFrom(Cluster, Len(UnitsBytes(yielded)))

\* C11: value_os, called after next has returned j units, returns as one slice all
\* bytes of the cluster after those units, the invalid suffix included (the suffix
\* alone when only it is left, nothing when nothing is left); after any value_os call
\* is_empty is true and next and value_os return nothing.
C11_ValueOsTakesRest ==
  [][ slast'.op = "value_os" =>
        /\ pure => slast'.ret = IF RestAfterYielded = <<>> THEN None
                                ELSE Some(RestAfterYielded)
        /\ FlagsIsEmpty(sf'[1])
        /\ FlagsNext(sf'[1]).ret = None
        /\ FlagsValueOs(sf'[1]).ret = None
    ]_vars

\* C11 witness: after one character was returned, value_os returned the next
\* character together with the invalid suffix behind it.
C11_Witness ==
  /\ slast.op = "value_os"
  /\ Cluster = <<97, 97, 255>>
  /\ yielded = <<Some(Ok(97))>>
  /\ slast.ret = Some(<<97, 255>>)

\* the number of characters among the results of a history of next calls
CharsYielded == Cardinality({i \in 1..Len(yielded) : yielded[i] # None /\ yielded[i][1].ok})

\* an invalid suffix is among the results of the history
SuffixYielded == \E i \in 1..Len(yielded) : yielded[i] # None /\ ~yielded[i][1].ok

\* what next returns once m characters of the text of the cluster are consumed and
\* no more
NextAfter(m) ==
  IF m < Len(ClusterText) THEN Some(Ok(ClusterText[m + 1]))
  ELSE IF ClusterTail # <<>> /\ ~SuffixYielded THEN Some(Err(ClusterTail))
  ELSE None

\* C12: advance_by(n) on a decomposer with c unconsumed characters of valid text
\* succeeds iff n <= c, and has then consumed exactly n characters (advance_by(0)
\* changes nothing); otherwise it fails and reports c, whether the input ran out or
\* the unit after the c characters was the invalid suffix.
C12_AdvanceByCounts ==
  [][ (slast'.op = "advance_by" /\ pure) =>
        LET c == Len(ClusterText) - CharsYielded
            n == slast'.n
        IN  /\ slast'.ret.ok <=> n <= c
            /\ slast'.ret.ok =>
                 /\ slast'.ret = Ok(<<>>)
                 /\ FlagsNext(sf'[1]).ret = NextAfter(CharsYielded + n)
            /\ ~slast'.ret.ok => slast'.ret = Err(c)
            /\ n = 0 => sf' = sf
    ]_vars

\* C12 witness: with one character of two consumed, advance_by(2) ran out of input
\* and reported 1.
C12_Witness ==
  /\ slast = [op |-> "advance_by", n |-> 2, ret |-> Err(1)]
  /\ Cluster = <<195, 169, 97>>
  /\ yielded = <<Some(Ok(233))>>

\* C13: no byte is skipped or duplicated: while only next is called the bytes of the
\* units returned are a prefix of the cluster; they are the whole cluster once next
\* has returned nothing, and so are they followed by the slice of a value_os call
\* that ends the run.
C13_NoByteLostOrDoubled ==
  [][ pure =>
        /\ slast'.op = "next" =>
             /\ StartsWith(Cluster, UnitsBytes(yielded'))
             /\ slast'.ret = None => UnitsBytes(yielded') = Cluster
        /\ slast'.op = "value_os" =>
             UnitsBytes(yielded)
               \o (IF slast'.ret = None THEN <<>> ELSE slast'.ret[1]) = Cluster
    ]_vars

\* C13 witness: a two-byte character was returned by next and value_os then returned
\* the invalid suffix.
C13_Witness ==
  /\ slast.op = "value_os"
  /\ Cluster = <<195, 169, 255>>
  /\ yielded = <<Some(Ok(233))>>
  /\ slast.ret = Some(<<255>>)

\* C18: in every reachable state is_empty is true iff next would return nothing
\* (also as is_empty reports it right before a next call); once is_empty is true it
\* stays true, and every later next and value_os returns nothing and every later
\* advance_by(n), n >= 1, fails with count 0, whatever calls are interleaved.
C18_ExhaustionPermanent ==
  /\ [](sf # None => (FlagsIsEmpty(sf[1]) <=> FlagsNext(sf[1]).ret = None))
  /\ [][ /\ (slast.op = "is_empty" /\ slast'.op = "next") =>
              (slast.ret <=> slast'.ret = None)
         /\ FlagsIsEmpty(sf[1]) =>
              /\ FlagsIsEmpty(sf'[1])
              /\ slast'.op \in {"next", "value_os"} => slast'.ret = None
              /\ (slast'.op = "advance_by" /\ slast'.n >= 1) => slast'.ret = Err(0)
       ]_vars

\* C18 witness: a cluster that was not empty is exhausted, next has returned nothing,
\* and an advance_by(n), n >= 1, made afterwards has failed with count 0.
C18_Witness ==
  /\ sf # None
  /\ FlagsIsEmpty(sf[1])
  /\ Cluster # <<>>
  /\ Len(yielded) >= 2
  /\ yielded[Len(yielded)] = None
  /\ slast.op = "advance_by"
  /\ slast.n >= 1
  /\ slast.ret = Err(0)

\* C19: whenever advance_by fails the decomposer is left exhausted: is_empty is true
\* and a following next or value_os returns nothing, so an invalid suffix that was
\* there has been consumed without being returned.
C19_FailedAdvanceExhausts ==
  (slast.op = "advance_by" /\ ~slast.ret.ok) =>
    /\ FlagsIsEmpty(sf[1])
    /\ FlagsNext(sf[1]).ret = None
    /\ FlagsValueOs(sf[1]).ret = None

\* C19 witness: advance_by(2) on the untouched cluster of one character and an
\* invalid suffix has failed with count 1; the suffix was never returned.
C19_Witness ==
  /\ slast = [op |-> "advance_by", n |-> 2, ret |-> Err(1)]
  /\ Cluster = <<97, 255>>
  /\ yielded = <<>>
  /\ FlagsIsEmpty(sf[1])

-----------------------------------------------------------------------------
(* ParsedArg: the queries *)

\* ParsedArg::is_stdio, with the comparison replaced by a prefix test
IsStdioByPrefix(parsed) == StartsWith(parsed.inner, <<Dash>>)

\* ParsedArg::is_stdio
IsStdio(parsed) == parsed.inner = <<Dash>>

\* ParsedArg::is_escape
IsEscape(parsed) == parsed.inner = <<Dash, Dash>>

\* ParsedArg::to_value_os
ToValueOs(parsed) == parsed.inner

\* ParsedArg::to_value
ToValue(parsed) == parsed.utf8

\* ParsedArg::is_number
IsNumber(parsed) ==
  IF ToValue(parsed) = None THEN FALSE ELSE ParseF64Ok(ToValue(parsed)[1])

\* RawOsStr::split_once, splitting at the last occurrence of the byte
SplitOnceAtLast(b, x) ==
  IF \E i \in 1..Len(b) : b[i] = x
  THEN LET i == CHOOSE j \in 1..Len(b) : b[j] = x /\ \A k \in (j + 1)..Len(b) : b[k] # x
       IN  Some(<<SubSeq(b, 1, i - 1), SliceFrom(b, i)>>)
  ELSE None

\* RawOsStr::split_once with a one-byte pattern: the parts before and after the
\* first occurrence of the byte
SplitOnce(b, x) ==
  IF \E i \in 1..Len(b) : b[i] = x
  THEN LET i == CHOOSE j \in 1..Len(b) : b[j] = x /\ \A k \in 1..(j - 1) : b[k] # x
       IN  Some(<<SubSeq(b, 1, i - 1), SliceFrom(b, i)>>)
  ELSE None

\* ParsedArg::to_long
ToLong(parsed) ==
  LET remainder == StripPrefix(parsed.inner, <<Dash, Dash>>)
  IN  IF remainder = None THEN None
      ELSE LET split == SplitOnce(remainder[1], Equals)
           IN  IF split # None
               THEN Some(<<split[1][1], Some(split[1][2])>>)
               ELSE Some(<<remainder[1], None>>)

\* ParsedArg::is_long
IsLong(parsed) == StartsWith(parsed.inner, <<Dash, Dash>>)

\* ParsedArg::is_short, without the exclusion of long flags
IsShortAnyDash(parsed) == StartsWith(parsed.inner, <<Dash>>)

\* ParsedArg::is_short
IsShort(parsed) == StartsWith(parsed.inner, <<Dash>>) /\ ~IsLong(parsed)

-----------------------------------------------------------------------------
(* ParsedArg and split_nonutf8_once: the state machine *)

\* the raw arguments that are classified: every byte string of at most MaxArgLen
\* bytes over ByteAlphabet and '='
ParsedInputs == SeqsUpTo(ByteAlphabet \cup {Equals}, MaxArgLen)

\* One raw argument; nothing has been asked about it.
InitParsed ==
  /\ rawArg \in ParsedInputs
  /\ query = [op |-> "none", ret |-> None]
  /\ items = <<>>
  /\ cursor = [c \in {"c1"} |-> 0]
  /\ status = "ok"
  /\ last = Call("none", "c1", None, None)
  /\ run = NoRun
  /\ sf = None
  /\ slast = [op |-> "none", n |-> 0, ret |-> None]
  /\ yielded = <<>>
  /\ pure = TRUE

\* RawArgs::next / peek hands out ParsedArg::new(arg)
Parsed == ParsedArgNew(rawArg)

ParsedIsStdio ==
  /\ query' = [op |-> "is_stdio", ret |-> IsStdio(Parsed)]
  /\ UNCHANGED <<rawArg, sf, slast, yielded, pure>>
  /\ UNCHANGED argsVars

ParsedIsEscape ==
  /\ query' = [op |-> "is_escape", ret |-> IsEscape(Parsed)]
  /\ UNCHANGED <<rawArg, sf, slast, yielded, pure>>
  /\ UNCHANGED argsVars

ParsedIsNumber ==
  /\ query' = [op |-> "is_number", ret |-> IsNumber(Parsed)]
  /\ UNCHANGED <<rawArg, sf, slast, yielded, pure>>
  /\ UNCHANGED argsVars

ParsedToLong ==
  /\ query' = [op |-> "to_long", ret |-> ToLong(Parsed)]
  /\ UNCHANGED <<rawArg, sf, slast, yielded, pure>>
  /\ UNCHANGED argsVars

ParsedIsLong ==
  /\ query' = [op |-> "is_long", ret |-> IsLong(Parsed)]
  /\ UNCHANGED <<rawArg, sf, slast, yielded, pure>>
  /\ UNCHANGED argsVars

ParsedToShort ==
  /\ query' = [op |-> "to_short", ret |-> ToShort(Parsed)]
  /\ UNCHANGED <<rawArg, sf, slast, yielded, pure>>
  /\ UNCHANGED argsVars

ParsedIsShort ==
  /\ query' = [op |-> "is_short", ret |-> IsShort(Parsed)]
  /\ UNCHANGED <<rawArg, sf, slast, yielded, pure>>
  /\ UNCHANGED argsVars

ParsedToValueOs ==
  /\ query' = [op |-> "to_value_os", ret |-> ToValueOs(Parsed)]
  /\ UNCHANGED <<rawArg, sf, slast, yielded, pure>>
  /\ UNCHANGED argsVars

ParsedToValue ==
  /\ query' = [op |-> "to_value", ret |-> ToValue(Parsed)]
  /\ UNCHANGED <<rawArg, sf, slast, yielded, pure>>
  /\ UNCHANGED argsVars

\* split_nonutf8_once applied to the bytes of the raw argument
SplitNonUtf8 ==
  /\ query' = [op |-> "split_nonutf8_once", ret |-> SplitNonUtf8Once(rawArg)]
  /\ UNCHANGED <<rawArg, sf, slast, yielded, pure>>
  /\ UNCHANGED argsVars

NextParsed ==
  \/ ParsedIsStdio
  \/ ParsedIsEscape
  \/ ParsedIsNumber
  \/ ParsedToLong
  \/ ParsedIsLong
  \/ ParsedToShort
  \/ ParsedIsShort
  \/ ParsedToValueOs
  \/ ParsedToValue
  \/ SplitNonUtf8

SpecParsed == InitParsed /\ [][NextParsed]_vars

-----------------------------------------------------------------------------
(* Claims about ParsedArg and split_nonutf8_once *)

\* the raw argument begins with a dash
OneDash == Len(rawArg) >= 1 /\ rawArg[1] = 45

\* the raw argument begins with two dashes
TwoDashes == Len(rawArg) >= 2 /\ rawArg[1] = 45 /\ rawArg[2] = 45

\* C14: for every raw argument is_short is true iff to_short returns a decomposer
\* iff the argument begins with a dash not followed by a second dash, and is_long is
\* true iff to_long returns a result iff the argument begins with two dashes; so
\* is_short and is_long are never both true and an argument that does not begin
\* with a dash is neither.  Every answer the queries gave agrees.
C14_ShortXorLong ==
  /\ IsShort(Parsed) <=> (OneDash /\ ~TwoDashes)
  /\ (ToShort(Parsed) # None) <=> (OneDash /\ ~TwoDashes)
  /\ IsLong(Parsed) <=> TwoDashes
  /\ (ToLong(Parsed) # None) <=> TwoDashes
  /\ ~(IsShort(Parsed) /\ IsLong(Parsed))
  /\ ~OneDash => (~IsShort(Parsed) /\ ~IsLong(Parsed))
  /\ query.op = "is_short" => (query.ret <=> (OneDash /\ ~TwoDashes))
  /\ query.op = "to_short" => ((query.ret # None) <=> (OneDash /\ ~TwoDashes))
  /\ query.op = "is_long" => (query.ret <=> TwoDashes)
  /\ query.op = "to_long" => ((query.ret # None) <=> TwoDashes)

\* C14 witness: is_short has answered false for an argument that begins with two
\* dashes and more.
C14_Witness ==
  /\ query = [op |-> "is_short", ret |-> FALSE]
  /\ rawArg = <<45, 45, 97>>
  /\ IsLong(Parsed)

\* the bytes after the two leading dashes
LongRemainder == SliceFrom(rawArg, 2)

\* C15: for every argument that begins with two dashes to_long returns (name, value):
\* when the remainder after the two dashes contains '=', name has no '=', value is
\* present and name, '=', value make up the remainder (so the split is at the first
\* '='); when it contains none, name is the whole remainder and value is absent.
C15_ToLongSplitsAtFirstEquals ==
  (query.op = "to_long" /\ TwoDashes) =>
    /\ query.ret # None
    /\ LET name == query.ret[1][1]
           value == query.ret[1][2]
       IN  IF \E i \in 1..Len(LongRemainder) : LongRemainder[i] = 61
           THEN /\ \A i \in 1..Len(name) : name[i] # 61
                /\ value # None
                /\ name \o <<61>> \o value[1] = LongRemainder
           ELSE /\ name = LongRemainder
                /\ value = None

\* C15 witness: to_long of "--==": the name is empty, the value is "=".
C15_Witness ==
  /\ rawArg = <<45, 45, 61, 61>>
  /\ query = [op |-> "to_long", ret |-> Some(<<(<<>>), Some(<<61>>)>>)]

\* C16: is_stdio is true iff the argument is exactly "-", and that argument is also
\* short-shaped: is_short is true and to_short returns a decomposer that is empty and
\* whose next returns nothing.  is_escape is true iff the argument is exactly "--",
\* and that argument is also long-shaped: is_long is true and to_long returns an
\* empty name with no value.
C16_BareMarkers ==
  /\ IsStdio(Parsed) <=> rawArg = <<45>>
  /\ query.op = "is_stdio" => (query.ret <=> rawArg = <<45>>)
  /\ rawArg = <<45>> =>
       /\ IsShort(Parsed)
       /\ ToShort(Parsed) # None
       /\ FlagsIsEmpty(ToShort(Parsed)[1])
       /\ FlagsNext(ToShort(Parsed)[1]).ret = None
  /\ IsEscape(Parsed) <=> rawArg = <<45, 45>>
  /\ query.op = "is_escape" => (query.ret <=> rawArg = <<45, 45>>)
  /\ rawArg = <<45, 45>> =>
       /\ IsLong(Parsed)
       /\ ToLong(Parsed) = Some(<<(<<>>), None>>)

\* C16 witness: is_stdio has answered true.
C16_Witness ==
  /\ query = [op |-> "is_stdio", ret |-> TRUE]
  /\ rawArg = <<45>>

\* C20: split_nonutf8_once of any byte string b returns (prefix, remainder): prefix
\* is the longest prefix of b that is valid text; remainder is absent iff all of b is
\* valid text; a remainder that is present is not empty, begins with bytes that start
\* no character, and prefix followed by remainder is b byte for byte.  It always
\* returns.
C20_SplitAtFirstInvalid ==
  query.op = "split_nonutf8_once" =>
    LET prefix == query.ret[1]
        remainder == query.ret[2]
        longest == Encode(TextOf(rawArg))
    IN  /\ prefix = longest
        /\ remainder = None <=> longest = rawArg
        /\ remainder # None =>
             /\ remainder[1] # <<>>
             /\ InvalidSuffix(remainder[1])
             /\ prefix \o remainder[1] = rawArg

\* C20 witness: "a", an invalid byte, "a" is split into "a" and the two bytes that
\* follow, the valid "a" after the invalid byte staying in the remainder.
C20_Witness ==
  /\ rawArg = <<97, 255, 97>>
  /\ query = [op |-> "split_nonutf8_once", ret |-> <<(<<97>>), Some(<<255, 97>>)>>]

-----------------------------------------------------------------------------
(* Two cursors over one RawArgs *)

\* A RawArgs built from a sequence, and two cursors obtained from it
\* (RawArgs::cursor, twice).
InitShared ==
  /\ items \in SeqsUpTo(Pool, MaxItems)
  /\ cursor = [c \in Cursors |-> 0]
  /\ status = "ok"
  /\ last = [op |-> "from", c |-> "c1", arg |-> <<>>, ret |-> None,
             items0 |-> <<>>, cur0 |-> 0]
  /\ run = NoRun
  /\ rawArg = <<>>
  /\ sf = None
  /\ slast = [op |-> "none", n |-> 0, ret |-> None]
  /\ yielded = <<>>
  /\ pure = TRUE
  /\ query = [op |-> "none", ret |-> None]

NextShared ==
  \/ \E c \in Cursors : NextOs(c)
  \/ \E c \in Cursors : PeekOs(c)
  \/ \E c \in Cursors, ins \in SeqsUpTo(InsPool, MaxIns) : Insert(c, ins)

SpecShared == InitShared /\ [][NextShared]_vars

\* the element at index q of the sequence s, if there is one
ElementAt(s, q) == IF q >= 0 /\ q < Len(s) THEN Some(s[q + 1]) ELSE None

\* C17: insert changes no cursor's index, neither the one passed to it nor any
\* other.  After an insert of n items at p that returned, a cursor at q < p peeks the
\* element it peeked before; a cursor at q >= p peeks the element now at q: the
\* inserted item number q - p when q < p + n, otherwise the element that was at
\* q - n before.
C17_InsertKeepsCursors ==
  [][ last'.op = "insert" =>
        /\ cursor' = cursor
        /\ status' = "ok" =>
             LET p == cursor[last'.c]
                 ins == last'.arg
                 n == Len(ins)
             IN  \A d \in DOMAIN cursor :
                   LET q == cursor'[d]
                   IN  PeekOsRet(items', q) =
                         IF q < p THEN PeekOsRet(items, q)
                         ELSE IF q < p + n THEN Some(ins[q - p + 1])
                         ELSE ElementAt(items, q - n) ]_vars

\* C17 witness: the first cursor has inserted one item at its index 1 of two
\* elements while the second cursor was at the end, index 2; the second cursor is
\* still at 2 and now peeks the element that was at index 1.
C17_Witness ==
  /\ last.op = "insert"
  /\ last.c = "c1"
  /\ status = "ok"
  /\ Len(last.arg) = 1
  /\ Len(last.items0) = 2
  /\ cursor["c1"] = 1
  /\ cursor["c2"] = 2
  /\ PeekOsRet(last.items0, 2) = None
  /\ PeekOsRet(items, cursor["c2"]) = Some(last.items0[2])

====
